---- MODULE Spec2Model ----
(***************************************************************************)
(* MCP Hub: the service registry (src/mcp-hub/src/registry.py), the        *)
(* request router and its load balancer (src/mcp-hub/src/router.py) and    *)
(* the HTTP handlers that drive them (src/mcp-hub/main.py).                *)
(*                                                                         *)
(* The hub runs on one asyncio event loop: a handler runs without          *)
(* interruption up to its next suspending await.  Every registry method    *)
(* and one health-monitor cycle contain no suspending await, so each is    *)
(* one action.  Router.route suspends once, in _forward_request            *)
(* (asyncio.sleep), so a routed request is two actions: the selection and  *)
(* start of the forward, and its completion.                               *)
(***************************************************************************)
EXTENDS Integers, Sequences, FiniteSets, TLC

VARIABLES
    now,                  \* time.time(), in seconds
    services,             \* ServiceRegistry.services, an insertion-ordered dict
    health_check_task,    \* ServiceRegistry._health_check_task is set
    monitor_tasks,        \* the _monitor_health tasks created so far
    monitor_wake,         \* the time the monitor's asyncio.sleep ends
    strategy,             \* config.load_balancer_strategy, fixed at start-up
    load_balancer_state,  \* Router.load_balancer_state
    active_connections,   \* Router.active_connections
    inflight,             \* per service name, the forwards to it that are
                          \*   suspended in _forward_request
    response,             \* the outcome of the handler that ran last
    rr_candidates,        \* history: the candidate list of the last round-robin pick
    rr_run,               \* history: picks of the consecutive round-robin routes
                          \*          that saw rr_candidates
    rr_first,             \* history: rr_run began at the router's first pick
    rr_cap_last,          \* history: per capability, the candidate list of its
                          \*          last round-robin route and its last two picks
                          \*          from that list
    beaten,               \* history: per name, a heartbeat found the record since
                          \*          its last registration
    departed,             \* history: per name, a deregister removed the record and
                          \*          no registration has put it back
    registrations,        \* history: per name, the registrations (counted up to 2)
                          \*          that made the record now in the directory
    last_body,            \* history: per name, the body of its last registration
    beat_from,            \* history: per name, what the last heartbeat since its
                          \*          registration found: a status, or NotFound
    lc_services,          \* a candidate list handed to LoadBalancer.least_connections
    lc_state,             \* the state dict handed to it
    lc_selected,          \* <<what it returned>>, <<>> before the call
    worker_services,      \* per gunicorn worker process, the services of the
                          \*   ServiceRegistry its lifespan() has built
    worker_tasks,         \* per worker process, whether its registry has a
                          \*   _health_check_task
    hub_registered        \* history: the names whose registration the hub has
                          \*          answered with success, and whose
                          \*          deregistration it has not

vars == <<now, services, health_check_task, monitor_tasks, monitor_wake, strategy,
          load_balancer_state, active_connections, inflight, response,
          rr_candidates, rr_run, rr_first, rr_cap_last,
          beaten, departed, registrations, last_body, beat_from,
          lc_services, lc_state, lc_selected,
          worker_services, worker_tasks, hub_registered>>

hub_vars == <<now, services, health_check_task, monitor_tasks, monitor_wake, strategy,
              load_balancer_state, active_connections, inflight, response,
              rr_candidates, rr_run, rr_first, rr_cap_last>>

rr_vars == <<rr_candidates, rr_run, rr_first, rr_cap_last>>

history_vars == <<beaten, departed, registrations, last_body, beat_from>>

lc_vars == <<lc_services, lc_state, lc_selected>>

worker_vars == <<worker_services, worker_tasks, hub_registered>>

\* what the steps of one hub process leave alone
aside_vars == <<lc_vars, worker_vars>>

-----------------------------------------------------------------------------
(* Bounds of the model *)

\* time runs from 0 to MaxTime
MaxTime == 61
\* at most MaxInflight forwards are suspended at once
MaxInflight == 2
\* the history of picks keeps the last MaxRun picks
MaxRun == 4
\* connection counts handed to least_connections range over 0..MaxCount
MaxCount == 2
\* the last moment of the clock of the punctual monitor
MaxClock == 50

(* Program constants *)

\* HubConfig.heartbeat_interval
heartbeat_interval == 30
\* HubConfig.health_check_interval
health_check_interval == 10
\* gunicorn.conf.py workers, multiprocessing.cpu_count() * 2, on one CPU
workers == 2

-----------------------------------------------------------------------------
(* Values *)

\* Python's None
None == "None"

HEALTHY == "healthy"
UNHEALTHY == "unhealthy"
UNKNOWN == "unknown"

Names == {"svc1", "svc2"}
Capabilities == {"c", "d"}
Strategies == {"round_robin", "random", "least_connections"}

\* the times at which something happens: the start, and one second past each
\* multiple of heartbeat_interval, so that the time since a heartbeat takes
\* the values 0, 1, 30, 31, 60 and 61
TimePoints == {0} \cup {t \in 1..MaxTime : t % heartbeat_interval = 1}

\* The JSON bodies sent to POST /register: keys names the keys the body holds
\* (the value of an absent key is never read).
RegisterBodies ==
    { [keys |-> {"name", "host", "port", "capabilities", "metadata"},
       name |-> n, host |-> "h1", port |-> 8001,
       capabilities |-> <<"c", "d">>, metadata |-> "m1"] : n \in {"svc1"} }
    \cup
    { [keys |-> {"name", "host", "port", "capabilities"},
       name |-> n, host |-> "h2", port |-> 8002,
       capabilities |-> <<"c">>, metadata |-> "m2"] : n \in Names }
    \cup
    { [keys |-> {"name", "port"},
       name |-> "svc1", host |-> "h1", port |-> 8001,
       capabilities |-> <<>>, metadata |-> "m1"],
      [keys |-> {"host", "port", "capabilities"},
       name |-> "svc1", host |-> "h1", port |-> 8001,
       capabilities |-> <<"c">>, metadata |-> "m1"],
      [keys |-> {"name", "host", "metadata"},
       name |-> "svc2", host |-> "h2", port |-> 8002,
       capabilities |-> <<>>, metadata |-> "m1"] }

\* The JSON bodies sent to POST /route; None is an absent (or null) value,
\* "" the empty string.
RouteBodies ==
    { [keys |-> {"method"}, capability |-> c, target_service |-> t] :
        c \in Capabilities \cup {None}, t \in Names \cup {None} }
    \cup
    { [keys |-> {"method"}, capability |-> "", target_service |-> None],
      [keys |-> {"method"}, capability |-> None, target_service |-> ""],
      [keys |-> {"method"}, capability |-> "c", target_service |-> ""] }
    \cup
    { [keys |-> {}, capability |-> "c", target_service |-> None] }

-----------------------------------------------------------------------------
(* Python dicts: services is a sequence of records in insertion order *)

Range(s) == { s[i] : i \in DOMAIN s }

IndexOf(seq, name) == CHOOSE i \in DOMAIN seq : seq[i].name = name

HasService(seq, name) == \E i \in DOMAIN seq : seq[i].name = name

\* d[k] = v: an existing key keeps its position, a new key goes last
DictSet(seq, rec) ==
    IF HasService(seq, rec.name)
    THEN [seq EXCEPT ![IndexOf(seq, rec.name)] = rec]
    ELSE Append(seq, rec)

\* del d[k]
DictDel(seq, name) ==
    SelectSeq(seq, LAMBDA r : r.name # name)

\* body.get(key, default)
BodyGet(body, key, default) == IF key \in body.keys THEN body[key] ELSE default

\* state.get(key, default) on a dict whose optional entry is <<>> or <<value>>
StateGet(entry, default) == IF entry = <<>> THEN default ELSE entry[1]

\* "if value:" on a string or None, taking "" for true as well
truthy_unless_none(value) == value # None

\* "if value:" on a string or None
truthy(value) == value # None /\ value # ""

\* dict.get(key, 0) on a dict of counters
CountGet(counts, name) == IF name \in DOMAIN counts THEN counts[name] ELSE 0

-----------------------------------------------------------------------------
(* registry.py *)

\* ServiceInfo with HEALTHY for the default status
ServiceInfo_healthy(name, host, port, capabilities, metadata, t) ==
    [name |-> name, host |-> host, port |-> port,
     capabilities |-> capabilities, status |-> HEALTHY,
     last_heartbeat |-> t, metadata |-> metadata]

\* ServiceInfo(...) and its __post_init__, constructed at time t
ServiceInfo(name, host, port, capabilities, metadata, t) ==
    [name |-> name, host |-> host, port |-> port,
     capabilities |-> capabilities, status |-> UNKNOWN,
     last_heartbeat |-> t, metadata |-> metadata]

\* register keeping the status of the record it replaces
register_keeping_status(svcs, service) ==
    IF HasService(svcs, service.name)
    THEN DictSet(svcs, [service EXCEPT
                            !.status = svcs[IndexOf(svcs, service.name)].status])
    ELSE DictSet(svcs, service)

\* register updating the record it finds instead of replacing it: the
\* capabilities and the metadata of the old record are kept
register_merging(svcs, service) ==
    IF HasService(svcs, service.name)
    THEN LET old == svcs[IndexOf(svcs, service.name)] IN
         DictSet(svcs, [service EXCEPT !.capabilities = old.capabilities,
                                       !.metadata = old.metadata])
    ELSE DictSet(svcs, service)

\* ServiceRegistry.register: the directory after self.services[service.name] = service
register(svcs, service) == DictSet(svcs, service)

\* deregister marking the record UNHEALTHY instead of deleting it
deregister_soft(svcs, service_name) ==
    IF HasService(svcs, service_name)
    THEN [svcs EXCEPT ![IndexOf(svcs, service_name)] =
              [@ EXCEPT !.status = UNHEALTHY]]
    ELSE svcs

\* ServiceRegistry.deregister: the directory after the call
deregister(svcs, service_name) ==
    IF HasService(svcs, service_name) THEN DictDel(svcs, service_name) ELSE svcs

\* update_heartbeat seen between its two assignments: the time is
\* refreshed, the status is not yet set
update_heartbeat_time_only(svcs, service_name, t) ==
    IF HasService(svcs, service_name)
    THEN [svcs EXCEPT ![IndexOf(svcs, service_name)] =
              [@ EXCEPT !.last_heartbeat = t]]
    ELSE svcs

\* update_heartbeat leaving the status of an UNHEALTHY record as it is
update_heartbeat_no_revival(svcs, service_name, t) ==
    IF HasService(svcs, service_name)
    THEN [svcs EXCEPT ![IndexOf(svcs, service_name)] =
              [@ EXCEPT !.last_heartbeat = t,
                        !.status = IF @ = UNHEALTHY THEN @ ELSE HEALTHY]]
    ELSE svcs

\* update_heartbeat creating the record it does not find
update_heartbeat_upsert(svcs, service_name, t) ==
    IF HasService(svcs, service_name)
    THEN [svcs EXCEPT ![IndexOf(svcs, service_name)] =
              [@ EXCEPT !.last_heartbeat = t, !.status = HEALTHY]]
    ELSE Append(svcs, [name |-> service_name, host |-> "h1", port |-> 8001,
                       capabilities |-> <<"c">>, status |-> HEALTHY,
                       last_heartbeat |-> t, metadata |-> "{}"])

\* ServiceRegistry.update_heartbeat at time t: the directory after the call
update_heartbeat(svcs, service_name, t) ==
    IF HasService(svcs, service_name)
    THEN [svcs EXCEPT ![IndexOf(svcs, service_name)] =
              [@ EXCEPT !.last_heartbeat = t, !.status = HEALTHY]]
    ELSE svcs

\* ServiceRegistry.get_service(name) is not None
get_service_found(svcs, service_name) == HasService(svcs, service_name)

\* ServiceRegistry.get_service(name), when it is not None
get_service(svcs, service_name) == svcs[IndexOf(svcs, service_name)]

\* get_services_by_capability listing the latest entry first
get_services_by_capability_latest_first(svcs, capability) ==
    LET found == SelectSeq(svcs, LAMBDA service :
                     capability \in Range(service.capabilities)
                         /\ service.status = HEALTHY)
    IN  [i \in DOMAIN found |-> found[Len(found) + 1 - i]]

\* get_services_by_capability without its status test
get_services_by_capability_any_status(svcs, capability) ==
    SelectSeq(svcs, LAMBDA service : capability \in Range(service.capabilities))

\* ServiceRegistry.get_services_by_capability
get_services_by_capability(svcs, capability) ==
    SelectSeq(svcs, LAMBDA service :
        capability \in Range(service.capabilities) /\ service.status = HEALTHY)

\* ServiceRegistry.get_healthy_services
get_healthy_services(svcs) ==
    SelectSeq(svcs, LAMBDA service : service.status = HEALTHY)

\* the loop body with its two statuses exchanged
monitor_classify_exchanged(service, current_time) ==
    LET time_since_heartbeat == current_time - service.last_heartbeat IN
    IF time_since_heartbeat > heartbeat_interval * 2
    THEN [service EXCEPT !.status = UNKNOWN]
    ELSE IF time_since_heartbeat > heartbeat_interval
    THEN [service EXCEPT !.status = UNHEALTHY]
    ELSE service

\* the loop body with the first threshold not doubled
monitor_classify_single(service, current_time) ==
    LET time_since_heartbeat == current_time - service.last_heartbeat IN
    IF time_since_heartbeat > heartbeat_interval
    THEN [service EXCEPT !.status = UNHEALTHY]
    ELSE service

\* the loop body with >= for >
monitor_classify_inclusive(service, current_time) ==
    LET time_since_heartbeat == current_time - service.last_heartbeat IN
    IF time_since_heartbeat >= heartbeat_interval * 2
    THEN [service EXCEPT !.status = UNHEALTHY]
    ELSE IF time_since_heartbeat >= heartbeat_interval
    THEN [service EXCEPT !.status = UNKNOWN]
    ELSE service

\* the loop body without its elif branch: a record is reclassified only
\* once it is UNHEALTHY
monitor_classify_late(service, current_time) ==
    LET time_since_heartbeat == current_time - service.last_heartbeat IN
    IF time_since_heartbeat > heartbeat_interval * 2
    THEN [service EXCEPT !.status = UNHEALTHY]
    ELSE service

\* the body of the loop of _monitor_health, for one service at current_time
monitor_classify(service, current_time) ==
    LET time_since_heartbeat == current_time - service.last_heartbeat IN
    IF time_since_heartbeat > heartbeat_interval * 2
    THEN [service EXCEPT !.status = UNHEALTHY]
    ELSE IF time_since_heartbeat > heartbeat_interval
    THEN [service EXCEPT !.status = UNKNOWN]
    ELSE service

\* one pass of _monitor_health over self.services.items()
monitor_pass(svcs, current_time) ==
    [i \in DOMAIN svcs |-> monitor_classify(svcs[i], current_time)]

-----------------------------------------------------------------------------
(* router.py: LoadBalancer.  A strategy returns the position in services of
   the service it selects (services[0] of the code is position 1), 0 for
   Python's None, and the state dict it leaves. *)

\* round_robin with 0 for the default of last_index
round_robin_from_zero(candidates, state) ==
    IF candidates = <<>>
    THEN [selected |-> 0, state |-> state]
    ELSE LET last_index == StateGet(state.last_index, 0)
             next_index == (last_index + 1) % Len(candidates)
         IN  [selected |-> next_index + 1,
              state |-> [state EXCEPT !.last_index = <<next_index>>]]

\* LoadBalancer.round_robin
round_robin(candidates, state) ==
    IF candidates = <<>>
    THEN [selected |-> 0, state |-> state]
    ELSE LET last_index == StateGet(state.last_index, -1)
             next_index == (last_index + 1) % Len(candidates)
         IN  [selected |-> next_index + 1,
              state |-> [state EXCEPT !.last_index = <<next_index>>]]

\* LoadBalancer.random_choice: every outcome random.choice can produce
random_choice(candidates, state) ==
    IF candidates = <<>>
    THEN {[selected |-> 0, state |-> state]}
    ELSE {[selected |-> i, state |-> state] : i \in DOMAIN candidates}

\* the for loop of LoadBalancer.least_connections from position i on;
\* min_connections is <<>> for float('inf')
RECURSIVE least_connections_loop(_, _, _, _, _)
least_connections_loop(candidates, connections, i, min_connections, selected) ==
    IF i > Len(candidates)
    THEN selected
    ELSE LET conn_count == CountGet(connections, candidates[i].name) IN
         IF min_connections = <<>> \/ conn_count < min_connections[1]
         THEN least_connections_loop(candidates, connections, i + 1,
                                     <<conn_count>>, i)
         ELSE least_connections_loop(candidates, connections, i + 1,
                                     min_connections, selected)

\* least_connections reading a key the state never holds
least_connections_no_counts(candidates, state) ==
    IF candidates = <<>>
    THEN [selected |-> 0, state |-> state]
    ELSE [selected |-> least_connections_loop(candidates, [n \in {} |-> 0], 1, <<>>, 0),
          state |-> state]

\* LoadBalancer.least_connections
least_connections(candidates, state) ==
    IF candidates = <<>>
    THEN [selected |-> 0, state |-> state]
    ELSE LET connections == StateGet(state.connections, [n \in {} |-> 0]) IN
         [selected |-> least_connections_loop(candidates, connections, 1, <<>>, 0),
          state |-> state]

\* Router.__init__: self.load_balancer, chosen by load_balancer_strategy,
\* applied to (services, state): the set of its possible outcomes
load_balancer(strat, candidates, state) ==
    CASE strat = "random" -> random_choice(candidates, state)
      [] strat = "least_connections" -> {least_connections(candidates, state)}
      [] OTHER -> {round_robin(candidates, state)}

\* Router.__init__: the dict handed to the load balancer on every call
router_state_init == [last_index |-> <<>>, connections |-> <<>>]

\* the check of line 96 without its status test
target_available_any_status(svcs, target_service) ==
    get_service_found(svcs, target_service)

\* Router.route, line 96: the target is there and HEALTHY
target_available(svcs, target_service) ==
    /\ get_service_found(svcs, target_service)
    /\ get_service(svcs, target_service).status = HEALTHY

\* the increment forgetting the count the name already has
connections_incremented_fresh(counts, service_name) ==
    [n \in DOMAIN counts \cup {service_name} |->
        IF n = service_name THEN 1 ELSE counts[n]]

\* _forward_request, line 137: the counters after the increment
connections_incremented(counts, service_name) ==
    [n \in DOMAIN counts \cup {service_name} |->
        IF n = service_name THEN CountGet(counts, n) + 1 ELSE counts[n]]

\* _forward_request, line 156: the counters after the decrement
connections_decremented(counts, service_name) ==
    [counts EXCEPT ![service_name] = @ - 1]

-----------------------------------------------------------------------------
(* The hub *)

\* what a handler answered: the HTTP status, and for POST /route the
\* RouteResponse behind it
Answer(op, http, success, error, service_name) ==
    [op |-> op, http |-> http, success |-> success, error |-> error,
     service_name |-> service_name]

NameSeq(seq) == [i \in DOMAIN seq |-> seq[i].name]

\* the last MaxRun picks of a history of picks
RunAppend(run, name) ==
    LET r == Append(run, name) IN IF Len(r) > MaxRun THEN Tail(r) ELSE r

\* the hub after lifespan() has built the registry and the router, with
\* config.load_balancer_strategy one of strategies
HubInit(strategies) ==
    /\ now = 0
    /\ services = <<>>
    /\ health_check_task = FALSE
    /\ monitor_tasks = 0
    /\ monitor_wake = 0
    /\ strategy \in strategies
    /\ load_balancer_state = router_state_init
    /\ active_connections = [n \in {} |-> 0]
    /\ inflight = [n \in Names |-> 0]
    /\ response = Answer("none", 0, FALSE, <<>>, None)
    /\ rr_candidates = <<>>
    /\ rr_run = <<>>
    /\ rr_first = FALSE
    /\ rr_cap_last = [c \in Capabilities |-> [candidates |-> <<>>, picks |-> <<>>]]

\* a heartbeat found no record
NotFound == "not found"

HistoryInit ==
    /\ beaten = [n \in Names |-> FALSE]
    /\ departed = [n \in Names |-> FALSE]
    /\ registrations = [n \in Names |-> 0]
    /\ last_body = [n \in Names |-> <<>>]
    /\ beat_from = [n \in Names |-> None]

\* LoadBalancer.least_connections is not being probed
LcIdle ==
    /\ lc_services = <<>>
    /\ lc_state = router_state_init
    /\ lc_selected = <<>>

\* the gunicorn worker processes, each after its lifespan()
WorkersInit ==
    /\ worker_services = [w \in 1..workers |-> <<>>]
    /\ worker_tasks = [w \in 1..workers |-> FALSE]
    /\ hub_registered = {}

\* HubConfig.load_balancer_strategy
default_strategy == "least_connections"

\* the hub as configured by default
Init == HubInit({default_strategy}) /\ HistoryInit /\ LcIdle /\ WorkersInit

router_unchanged ==
    UNCHANGED <<load_balancer_state, active_connections, inflight,
                rr_candidates, rr_run, rr_first, rr_cap_last>>

\* time passes
Tick ==
    /\ \E t \in TimePoints : t > now /\ now' = t
    /\ UNCHANGED <<services, health_check_task, monitor_tasks, monitor_wake, strategy,
                   response>>
    /\ router_unchanged

\* register creating a monitor task whether or not one is set
starts_monitor_always(task) == TRUE

\* ServiceRegistry.register, line 56: "if not self._health_check_task"
starts_monitor(task) == ~task

\* register_service reading host with service_data.get: a body without a
\* host is accepted
register_service_lenient(service_data) ==
    /\ IF {"name", "port"} \subseteq service_data.keys
       THEN LET service == ServiceInfo(service_data.name,
                                       BodyGet(service_data, "host", "h1"),
                                       service_data.port,
                                       BodyGet(service_data, "capabilities", <<>>),
                                       BodyGet(service_data, "metadata", "{}"),
                                       now)
            IN  /\ services' = register(services, service)
                /\ health_check_task' = TRUE
                /\ monitor_tasks' = IF starts_monitor(health_check_task)
                                    THEN monitor_tasks + 1 ELSE monitor_tasks
                /\ monitor_wake' = IF starts_monitor(health_check_task)
                                   THEN now ELSE monitor_wake
                /\ response' = Answer("register", 200, TRUE, <<>>, service.name)
       ELSE /\ response' = Answer("register", 400, FALSE,
                                  <<"Missing required field">>, None)
            /\ UNCHANGED <<services, health_check_task, monitor_tasks, monitor_wake>>
    /\ UNCHANGED <<now, strategy>>
    /\ router_unchanged

\* main.py register_service, with ServiceRegistry.register
register_service(service_data) ==
    /\ IF {"name", "host", "port"} \subseteq service_data.keys
       THEN LET service == ServiceInfo(service_data.name, service_data.host,
                                       service_data.port,
                                       BodyGet(service_data, "capabilities", <<>>),
                                       BodyGet(service_data, "metadata", "{}"),
                                       now)
            IN  /\ services' = register(services, service)
                /\ health_check_task' = TRUE
                /\ monitor_tasks' = IF starts_monitor(health_check_task)
                                    THEN monitor_tasks + 1 ELSE monitor_tasks
                /\ monitor_wake' = IF starts_monitor(health_check_task)
                                   THEN now ELSE monitor_wake
                /\ response' = Answer("register", 200, TRUE, <<>>, service.name)
       ELSE \* KeyError
            /\ response' = Answer("register", 400, FALSE,
                                  <<"Missing required field">>, None)
            /\ UNCHANGED <<services, health_check_task, monitor_tasks, monitor_wake>>
    /\ UNCHANGED <<now, strategy>>
    /\ router_unchanged

\* deregister_service dropping the connection counter of the name as well
deregister_service_dropping_counter(service_name) ==
    /\ services' = deregister(services, service_name)
    /\ response' = IF HasService(services, service_name)
                   THEN Answer("deregister", 200, TRUE, <<>>, service_name)
                   ELSE Answer("deregister", 404, FALSE,
                               <<"Service not found">>, service_name)
    /\ active_connections' = [n \in DOMAIN active_connections \ {service_name} |->
                                 active_connections[n]]
    /\ UNCHANGED <<now, health_check_task, monitor_tasks, monitor_wake, strategy,
                   load_balancer_state, inflight,
                   rr_candidates, rr_run, rr_first, rr_cap_last>>

\* deregister_service answering 200 whatever deregister returned
deregister_service_always_ok(service_name) ==
    /\ services' = deregister(services, service_name)
    /\ response' = Answer("deregister", 200, TRUE, <<>>, service_name)
    /\ UNCHANGED <<now, health_check_task, monitor_tasks, monitor_wake, strategy>>
    /\ router_unchanged

\* main.py deregister_service, with ServiceRegistry.deregister
deregister_service(service_name) ==
    /\ services' = deregister(services, service_name)
    /\ response' = IF HasService(services, service_name)
                   THEN Answer("deregister", 200, TRUE, <<>>, service_name)
                   ELSE Answer("deregister", 404, FALSE,
                               <<"Service not found">>, service_name)
    /\ UNCHANGED <<now, health_check_task, monitor_tasks, monitor_wake, strategy>>
    /\ router_unchanged

\* main.py heartbeat, with ServiceRegistry.update_heartbeat
heartbeat(service_name) ==
    /\ services' = update_heartbeat(services, service_name, now)
    /\ response' = IF HasService(services, service_name)
                   THEN Answer("heartbeat", 200, TRUE, <<>>, service_name)
                   ELSE Answer("heartbeat", 404, FALSE,
                               <<"Service not found">>, service_name)
    /\ UNCHANGED <<now, health_check_task, monitor_tasks, monitor_wake, strategy>>
    /\ router_unchanged

\* one cycle of ServiceRegistry._monitor_health, up to its asyncio.sleep
monitor_health ==
    /\ health_check_task
    /\ now >= monitor_wake
    /\ services' = monitor_pass(services, now)
    /\ monitor_wake' = now + health_check_interval
    /\ UNCHANGED <<now, health_check_task, monitor_tasks, strategy, response>>
    /\ router_unchanged

\* a cycle whose failure ends the loop: the task never wakes again
monitor_failed_stopping(classified) ==
    /\ health_check_task
    /\ now >= monitor_wake
    /\ classified \in 0..Len(services)
    /\ services' = [i \in DOMAIN services |->
                       IF i <= classified
                       THEN monitor_classify(services[i], now) ELSE services[i]]
    /\ monitor_wake' = now + health_check_interval * MaxTime
    /\ UNCHANGED <<now, health_check_task, monitor_tasks, strategy, response>>
    /\ router_unchanged

\* one cycle of _monitor_health in which an exception is raised after
\* classified entries have been handled: the except clause logs it and
\* sleeps health_check_interval (lines 114-116)
monitor_failed(classified) ==
    /\ health_check_task
    /\ now >= monitor_wake
    /\ classified \in 0..Len(services)
    /\ services' = [i \in DOMAIN services |->
                       IF i <= classified
                       THEN monitor_classify(services[i], now) ELSE services[i]]
    /\ monitor_wake' = now + health_check_interval
    /\ UNCHANGED <<now, health_check_task, monitor_tasks, strategy, response>>
    /\ router_unchanged

\* the number of forwards suspended in _forward_request
InFlight == inflight["svc1"] + inflight["svc2"]

\* Router._forward_request up to its await: count the connection and suspend
forward_request(service_name, request) ==
    /\ InFlight < MaxInflight
    /\ active_connections' = connections_incremented(active_connections, service_name)
    /\ inflight' = [inflight EXCEPT ![service_name] = @ + 1]
    /\ UNCHANGED response

\* main.py route_request: the request carries no method (KeyError)
route_no_method(request_data) ==
    /\ "method" \notin request_data.keys
    /\ response' = Answer("route", 400, FALSE, <<"Missing required field">>, None)
    /\ UNCHANGED <<now, services, health_check_task, monitor_tasks, monitor_wake, strategy>>
    /\ router_unchanged

\* a failed route forgetting where round-robin stood
route_failed_resetting(error) ==
    /\ response' = Answer("route", 500, FALSE, error, None)
    /\ load_balancer_state' = router_state_init
    /\ UNCHANGED <<now, services, health_check_task, monitor_tasks, monitor_wake, strategy,
                   active_connections, inflight,
                   rr_candidates, rr_run, rr_first, rr_cap_last>>

\* route raising instead of returning a RouteResponse: the handler has no
\* error string of the router to report
route_failed_raising(error) ==
    /\ response' = Answer("route", 500, FALSE, <<>>, None)
    /\ UNCHANGED <<now, services, health_check_task, monitor_tasks, monitor_wake, strategy>>
    /\ router_unchanged

\* the HTTPException(503) of line 173 is raised inside the try block, whose
\* "except Exception" catches it and raises HTTPException(500) in its place
route_failed(error) ==
    /\ response' = Answer("route", 500, FALSE, error, None)
    /\ UNCHANGED <<now, services, health_check_task, monitor_tasks, monitor_wake, strategy>>
    /\ router_unchanged

\* Router.route, direct routing to a specific service (lines 94-102)
route_direct(request_data) ==
    /\ "method" \in request_data.keys
    /\ truthy(request_data.target_service)
    /\ IF target_available(services, request_data.target_service)
       THEN /\ forward_request(get_service(services, request_data.target_service).name,
                               request_data)
            /\ UNCHANGED <<now, services, health_check_task, monitor_tasks, monitor_wake, strategy,
                           load_balancer_state,
                           rr_candidates, rr_run, rr_first, rr_cap_last>>
       ELSE route_failed(<<"Service", request_data.target_service, "not available">>)

\* the history of round-robin picks after candidates gave pick for capability
rr_history(capability, candidates, pick) ==
    LET names == NameSeq(candidates)
        same == names = rr_candidates /\ rr_run # <<>>
    IN  /\ rr_candidates' = names
        /\ rr_run' = IF same THEN RunAppend(rr_run, pick) ELSE <<pick>>
        /\ rr_first' = IF same THEN rr_first /\ Len(rr_run) < MaxRun
                       ELSE rr_run = <<>>
        /\ rr_cap_last' = [rr_cap_last EXCEPT ![capability] =
               IF @.candidates = names /\ @.picks # <<>>
               THEN [@ EXCEPT !.picks = <<@[Len(@)], pick>>]
               ELSE [candidates |-> names, picks |-> <<pick>>]]

\* Router.route, capability-based routing (lines 105-117)
route_capability(request_data) ==
    /\ "method" \in request_data.keys
    /\ ~truthy(request_data.target_service)
    /\ truthy(request_data.capability)
    /\ LET candidates == get_services_by_capability(services, request_data.capability) IN
       IF candidates = <<>>
       THEN route_failed(<<"No services available for capability",
                           request_data.capability>>)
       ELSE \E choice \in load_balancer(strategy, candidates, load_balancer_state) :
              /\ load_balancer_state' = choice.state
              /\ forward_request(candidates[choice.selected].name, request_data)
              /\ UNCHANGED <<now, services, health_check_task, monitor_tasks, monitor_wake, strategy>>

\* the history of round-robin picks over a step of route_capability
rr_record(request_data) ==
    IF strategy = "round_robin" /\ inflight' # inflight
    THEN rr_history(request_data.capability,
                    get_services_by_capability(services, request_data.capability),
                    CHOOSE n \in Names : inflight'[n] # inflight[n])
    ELSE UNCHANGED rr_vars

\* Router.route, no routing criteria (lines 119-124)
route_no_criteria(request_data) ==
    /\ "method" \in request_data.keys
    /\ ~truthy(request_data.target_service)
    /\ ~truthy(request_data.capability)
    /\ route_failed(<<"No target service or capability specified">>)

\* Router._forward_request from its await on: the answer, and the finally block
forward_done(service_name) ==
    /\ inflight[service_name] > 0
    /\ active_connections' = connections_decremented(active_connections, service_name)
    /\ response' = Answer("route", 200, TRUE, <<>>, service_name)
    /\ inflight' = [inflight EXCEPT ![service_name] = @ - 1]
    /\ UNCHANGED <<now, services, health_check_task, monitor_tasks, monitor_wake, strategy,
                   load_balancer_state, rr_candidates, rr_run, rr_first, rr_cap_last>>

\* the steps of the handlers, the monitor and the forwards, but for the
\* routes by capability
PlainNext ==
    \/ \E service_data \in RegisterBodies :
          register_service(service_data) /\ UNCHANGED <<history_vars, aside_vars>>
    \/ \E service_name \in Names :
          deregister_service(service_name) /\ UNCHANGED <<history_vars, aside_vars>>
    \/ \E service_name \in Names :
          heartbeat(service_name) /\ UNCHANGED <<history_vars, aside_vars>>
    \/ monitor_health /\ UNCHANGED <<history_vars, aside_vars>>
    \/ \E request_data \in RouteBodies :
          route_no_method(request_data) /\ UNCHANGED <<history_vars, aside_vars>>
    \/ \E request_data \in RouteBodies :
          route_direct(request_data) /\ UNCHANGED <<history_vars, aside_vars>>
    \/ \E request_data \in RouteBodies :
          route_no_criteria(request_data) /\ UNCHANGED <<history_vars, aside_vars>>
    \/ \E service_name \in Names :
          forward_done(service_name) /\ UNCHANGED <<history_vars, aside_vars>>

\* all the steps of the hub
HandlerNext ==
    \/ \E request_data \in RouteBodies :
          /\ route_capability(request_data)
          /\ UNCHANGED <<rr_vars, history_vars, aside_vars>>
    \/ PlainNext

Next ==
    \/ Tick /\ UNCHANGED <<history_vars, aside_vars>>
    \/ HandlerNext

\* The hub with the default configuration, time passing.
Spec == Init /\ [][Next]_vars

\* The hub under each load-balancing strategy, while the clock stands still.
InitStrategies == HubInit(Strategies) /\ HistoryInit /\ LcIdle /\ WorkersInit

NextStrategies == HandlerNext

SpecStrategies == InitStrategies /\ [][NextStrategies]_vars

\* The hub under round-robin, with the history of its picks, while the clock
\* stands still.
InitRouter == HubInit({"round_robin"}) /\ HistoryInit /\ LcIdle /\ WorkersInit

NextRouter ==
    \/ \E request_data \in RouteBodies :
          /\ route_capability(request_data)
          /\ rr_record(request_data)
          /\ UNCHANGED <<history_vars, aside_vars>>
    \/ PlainNext

SpecRouter == InitRouter /\ [][NextRouter]_vars

-----------------------------------------------------------------------------
(* The registry alone, with the history of registrations and heartbeats *)

accepted(service_data) == {"name", "host", "port"} \subseteq service_data.keys

history_register(service_data) ==
    IF accepted(service_data)
    THEN LET n == service_data.name IN
         /\ beaten' = [beaten EXCEPT ![n] = FALSE]
         /\ departed' = [departed EXCEPT ![n] = FALSE]
         /\ registrations' = [registrations EXCEPT ![n] =
                                 IF HasService(services, n) THEN 2 ELSE 1]
         /\ last_body' = [last_body EXCEPT ![n] = <<service_data>>]
         /\ beat_from' = [beat_from EXCEPT ![n] = None]
    ELSE UNCHANGED history_vars

history_deregister(service_name) ==
    IF HasService(services, service_name)
    THEN /\ beaten' = [beaten EXCEPT ![service_name] = FALSE]
         /\ departed' = [departed EXCEPT ![service_name] = TRUE]
         /\ registrations' = [registrations EXCEPT ![service_name] = 0]
         /\ last_body' = [last_body EXCEPT ![service_name] = <<>>]
         /\ UNCHANGED beat_from
    ELSE UNCHANGED history_vars

history_heartbeat(service_name) ==
    /\ beaten' = [beaten EXCEPT ![service_name] =
                     @ \/ HasService(services, service_name)]
    /\ beat_from' = [beat_from EXCEPT ![service_name] =
                        IF HasService(services, service_name)
                        THEN get_service(services, service_name).status
                        ELSE NotFound]
    /\ UNCHANGED <<departed, registrations, last_body>>

NextRegistry ==
    \/ Tick /\ UNCHANGED <<history_vars, aside_vars>>
    \/ \E service_data \in RegisterBodies :
          /\ register_service(service_data)
          /\ history_register(service_data)
          /\ UNCHANGED aside_vars
    \/ \E service_name \in Names :
          /\ deregister_service(service_name)
          /\ history_deregister(service_name)
          /\ UNCHANGED aside_vars
    \/ \E service_name \in Names :
          /\ heartbeat(service_name)
          /\ history_heartbeat(service_name)
          /\ UNCHANGED aside_vars
    \/ monitor_health /\ UNCHANGED <<history_vars, aside_vars>>

SpecRegistry == Init /\ [][NextRegistry]_vars

\* The registry with a Health Monitor whose cycles may fail: time passes, and
\* the event loop runs the monitor when its sleep has ended.
MonitorCycle ==
    \/ monitor_health /\ UNCHANGED <<history_vars, aside_vars>>
    \/ \E classified \in 0..Len(services) :
          monitor_failed(classified) /\ UNCHANGED <<history_vars, aside_vars>>

NextMonitor ==
    \/ NextRegistry
    \/ \E classified \in 0..Len(services) :
          monitor_failed(classified) /\ UNCHANGED <<history_vars, aside_vars>>

SpecMonitor ==
    /\ Init
    /\ [][NextMonitor]_vars
    /\ WF_vars(Tick /\ UNCHANGED <<history_vars, aside_vars>>)
    /\ WF_vars(MonitorCycle)

-----------------------------------------------------------------------------
(* The registry with a punctual Health Monitor: the clock moves in steps of
   half a health_check_interval and does not pass the end of the monitor's
   sleep before the monitor has run its cycle. *)

ClockPoints == {t \in 0..MaxClock : t % (health_check_interval \div 2) = 0}

\* time passes, up to the moment asyncio.sleep(health_check_interval) ends
punctual_tick ==
    /\ \E t \in ClockPoints :
          /\ t > now
          /\ health_check_task => t <= monitor_wake
          /\ now' = t
    /\ UNCHANGED <<services, health_check_task, monitor_tasks, monitor_wake, strategy,
                   response>>
    /\ router_unchanged

NextPunctual ==
    \/ punctual_tick /\ UNCHANGED <<history_vars, aside_vars>>
    \/ \E service_data \in RegisterBodies :
          register_service(service_data) /\ UNCHANGED <<history_vars, aside_vars>>
    \/ \E service_name \in Names :
          deregister_service(service_name) /\ UNCHANGED <<history_vars, aside_vars>>
    \/ \E service_name \in Names :
          heartbeat(service_name) /\ UNCHANGED <<history_vars, aside_vars>>
    \/ monitor_health /\ UNCHANGED <<history_vars, aside_vars>>

SpecPunctual == Init /\ [][NextPunctual]_vars

-----------------------------------------------------------------------------
(* LoadBalancer.least_connections alone, on candidate lists and state dicts *)

LcNames == {"A", "B", "C"}

\* the sequences of distinct names of LcNames
LcNameLists ==
    UNION { {g \in [1..k -> LcNames] : \A i, j \in 1..k : i # j => g[i] # g[j]} :
              k \in 0..Cardinality(LcNames) }

\* the candidate lists: services with these names
LcCandidateLists ==
    { [i \in DOMAIN g |-> ServiceInfo(g[i], "h1", 8001, <<"c">>, "{}", 0)] :
        g \in LcNameLists }

\* the state dicts: without a 'connections' entry, or with counts up to
\* MaxCount for some of the names
LcStates ==
    { [last_index |-> <<>>, connections |-> c] :
        c \in {<<>>} \cup
              { <<f>> : f \in UNION { [D -> 0..MaxCount] : D \in SUBSET LcNames } } }

InitLC ==
    /\ HubInit({default_strategy})
    /\ HistoryInit
    /\ WorkersInit
    /\ lc_services \in LcCandidateLists
    /\ lc_state \in LcStates
    /\ lc_selected = <<>>

\* one call of LoadBalancer.least_connections
least_connections_call ==
    /\ lc_selected = <<>>
    /\ lc_selected' = <<least_connections(lc_services, lc_state).selected>>
    /\ UNCHANGED <<lc_services, lc_state>>

NextLC == least_connections_call /\ UNCHANGED <<hub_vars, history_vars, worker_vars>>

SpecLC == InitLC /\ [][NextLC]_vars

-----------------------------------------------------------------------------
(* The hub behind gunicorn: worker processes accept the requests sent to the
   hub's socket, and each has run lifespan(), which builds the ServiceRegistry
   and the Router of that process.  The clock stands still, so that the
   monitor of a worker has nothing to reclassify. *)

\* what a worker process leaves alone: the variables of the single process
\* above, but for the answer
worker_frame ==
    /\ UNCHANGED <<now, services, health_check_task, monitor_tasks, monitor_wake,
                   strategy, history_vars, lc_vars>>
    /\ router_unchanged

\* POST /register handled by worker w
worker_register(w, service_data) ==
    /\ IF {"name", "host", "port"} \subseteq service_data.keys
       THEN LET service == ServiceInfo(service_data.name, service_data.host,
                                       service_data.port,
                                       BodyGet(service_data, "capabilities", <<>>),
                                       BodyGet(service_data, "metadata", "{}"),
                                       now)
            IN  /\ worker_services' = [worker_services EXCEPT ![w] =
                                          register(@, service)]
                /\ worker_tasks' = [worker_tasks EXCEPT ![w] = TRUE]
                /\ response' = Answer("register", 200, TRUE, <<>>, service.name)
                /\ hub_registered' = hub_registered \cup {service.name}
       ELSE /\ response' = Answer("register", 400, FALSE,
                                  <<"Missing required field">>, None)
            /\ UNCHANGED <<worker_services, worker_tasks, hub_registered>>
    /\ worker_frame

\* POST /heartbeat/{service_name} handled by worker w
worker_heartbeat(w, service_name) ==
    /\ worker_services' = [worker_services EXCEPT ![w] =
                              update_heartbeat(@, service_name, now)]
    /\ response' = IF HasService(worker_services[w], service_name)
                   THEN Answer("heartbeat", 200, TRUE, <<>>, service_name)
                   ELSE Answer("heartbeat", 404, FALSE,
                               <<"Service not found">>, service_name)
    /\ UNCHANGED <<worker_tasks, hub_registered>>
    /\ worker_frame

\* POST /deregister/{service_name} handled by worker w
worker_deregister(w, service_name) ==
    /\ worker_services' = [worker_services EXCEPT ![w] =
                              deregister(@, service_name)]
    /\ response' = IF HasService(worker_services[w], service_name)
                   THEN Answer("deregister", 200, TRUE, <<>>, service_name)
                   ELSE Answer("deregister", 404, FALSE,
                               <<"Service not found">>, service_name)
    /\ hub_registered' = IF HasService(worker_services[w], service_name)
                         THEN hub_registered \ {service_name}
                         ELSE hub_registered
    /\ UNCHANGED worker_tasks
    /\ worker_frame

\* a request sent to the hub is accepted by any one of its workers
NextWorkers ==
    \/ \E w \in 1..workers, service_data \in RegisterBodies :
          worker_register(w, service_data)
    \/ \E w \in 1..workers, service_name \in Names :
          worker_heartbeat(w, service_name)
    \/ \E w \in 1..workers, service_name \in Names :
          worker_deregister(w, service_name)

SpecWorkers == Init /\ [][NextWorkers]_vars

-----------------------------------------------------------------------------
(* Properties *)

\* getByName(name) finds a record
Present(n) == \E i \in DOMAIN services : services[i].name = n

\* the record getByName(name) returns
Record(n) == services[CHOOSE i \in DOMAIN services : services[i].name = n]

\* the time since the last heartbeat of the record
Elapsed(n) == now - Record(n).last_heartbeat

\* getByCapability(c) lists a service named n
Listed(n, c) ==
    \E i \in DOMAIN get_services_by_capability(services, c) :
        get_services_by_capability(services, c)[i].name = n

\* this step is an accepted registration of n
RegistersStep(n) ==
    \E service_data \in RegisterBodies :
        /\ service_data.name = n
        /\ {"name", "host", "port"} \subseteq service_data.keys
        /\ register_service(service_data)

(* C1, as claimed: a registered record has status UNKNOWN as long as no
   heartbeat(name) has found it since its registration. *)
C1_UnknownUntilFirstHeartbeat ==
    \A n \in Names : Present(n) /\ ~beaten[n] => Record(n).status = UNKNOWN

(* C1, amended: a record is UNKNOWN right after its registration; as long as
   no heartbeat(name) has found it since, it is never HEALTHY: it is UNKNOWN,
   or UNHEALTHY once it is more than 2*heartbeat_interval old; and a
   heartbeat(name) that finds it makes it HEALTHY. *)
C1_NotHealthyUntilFirstHeartbeat ==
    /\ [](\A n \in Names :
            Present(n) /\ ~beaten[n] =>
                /\ Record(n).status \in {UNKNOWN, UNHEALTHY}
                /\ Record(n).status = UNHEALTHY =>
                       Elapsed(n) > 2 * heartbeat_interval)
    /\ [][\A n \in Names :
            /\ RegistersStep(n) => Record(n)'.status = UNKNOWN
            /\ heartbeat(n) /\ Present(n) => Record(n)'.status = HEALTHY]_vars

\* a record that no heartbeat has found since its registration is UNHEALTHY
C1_Witness ==
    \E n \in Names : Present(n) /\ ~beaten[n] /\ Record(n).status = UNHEALTHY

(* C2: once deregister(name) has removed the record, and until name is
   registered again, getByName(name) finds nothing and no getByCapability(c)
   lists the service, whatever heartbeats and monitor cycles follow. *)
C2_DeregisteredStaysAway ==
    \A n \in Names :
        departed[n] =>
            /\ ~get_service_found(services, n)
            /\ \A c \in Capabilities : ~Listed(n, c)

\* a heartbeat for a deregistered name has just answered 404
C2_Witness ==
    \E n \in Names :
        /\ departed[n]
        /\ response = Answer("heartbeat", 404, FALSE, <<"Service not found">>, n)
        /\ monitor_wake > 0

(* C3: after a second registration of a name the directory holds exactly one
   record of that name, and its host, port, capabilities and metadata are
   those of the body of the second registration alone. *)
C3_SecondRegistrationReplaces ==
    \A n \in Names :
        registrations[n] = 2 =>
            /\ Cardinality({i \in DOMAIN services : services[i].name = n}) = 1
            /\ LET body == last_body[n][1] IN
               /\ Record(n).host = body.host
               /\ Record(n).port = body.port
               /\ Record(n).capabilities =
                      (IF "capabilities" \in body.keys THEN body.capabilities ELSE <<>>)
               /\ Record(n).metadata =
                      (IF "metadata" \in body.keys THEN body.metadata ELSE "{}")

\* svc1 was registered with capabilities c and d and metadata, then again
\* with capability c alone and no metadata
C3_Witness ==
    /\ registrations["svc1"] = 2
    /\ Record("svc1").host = "h2"
    /\ Record("svc1").capabilities = <<"c">>
    /\ Record("svc1").metadata = "{}"
    /\ response = Answer("register", 200, TRUE, <<>>, "svc1")

\* what one monitor cycle does at 31 s and at 61 s since the last heartbeat,
\* and the state a heartbeat leaves
C4_MonitorAndHeartbeat ==
    /\ monitor_health =>
          \A n \in Names :
              Present(n) =>
                  /\ Elapsed(n) = 31 => Record(n)'.status = UNKNOWN
                  /\ Elapsed(n) = 61 => Record(n)'.status = UNHEALTHY
    /\ \A n \in Names :
          heartbeat(n) /\ Present(n) =>
              Record(n)'.status = HEALTHY /\ Elapsed(n)' = 0

(* C4, as claimed: with heartbeat_interval = 30 the monitor finds a service
   31 s past its last heartbeat UNKNOWN and one 61 s past it UNHEALTHY, and a
   service is HEALTHY with 0 s elapsed right after a heartbeat and right after
   a registration. *)
C4_HealthyAfterRegistration ==
    [][/\ heartbeat_interval = 30
       /\ C4_MonitorAndHeartbeat
       /\ \A n \in Names :
             RegistersStep(n) =>
                 Record(n)'.status = HEALTHY /\ Elapsed(n)' = 0]_vars

(* C4, amended: with heartbeat_interval = 30 a monitor cycle leaves a service
   31 s past its last heartbeat UNKNOWN and one 61 s past it UNHEALTHY; a
   service is HEALTHY with 0 s elapsed right after a heartbeat, and UNKNOWN
   with 0 s elapsed right after a registration. *)
C4_UnknownAfterRegistration ==
    [][/\ heartbeat_interval = 30
       /\ C4_MonitorAndHeartbeat
       /\ \A n \in Names :
             RegistersStep(n) =>
                 Record(n)'.status = UNKNOWN /\ Elapsed(n)' = 0]_vars

\* a monitor cycle has just found a service 61 s past its last heartbeat
C4_Witness ==
    /\ monitor_wake = now + health_check_interval
    /\ \E n \in Names :
          Present(n) /\ Elapsed(n) = 61 /\ Record(n).status = UNHEALTHY

(* C5: a monitor cycle sets every record more than 2*heartbeat_interval past
   its last heartbeat UNHEALTHY, every record more than heartbeat_interval and
   at most 2*heartbeat_interval past it UNKNOWN, and leaves the status of
   every record at most heartbeat_interval past it as it was; it changes no
   other field and adds or removes no record. *)
C5_MonitorCycle ==
    [][monitor_health =>
          /\ Len(services') = Len(services)
          /\ \A i \in DOMAIN services :
                LET elapsed == now - services[i].last_heartbeat
                    before == services[i]
                    after == services'[i]
                IN  /\ elapsed > 2 * heartbeat_interval =>
                           after.status = UNHEALTHY
                    /\ elapsed > heartbeat_interval
                          /\ elapsed <= 2 * heartbeat_interval =>
                           after.status = UNKNOWN
                    /\ elapsed <= heartbeat_interval =>
                           after.status = before.status
                    /\ after.name = before.name
                    /\ after.host = before.host
                    /\ after.port = before.port
                    /\ after.capabilities = before.capabilities
                    /\ after.metadata = before.metadata
                    /\ after.last_heartbeat = before.last_heartbeat]_vars

\* a monitor cycle has just left a record exactly heartbeat_interval past its
\* heartbeat HEALTHY, and one exactly 2*heartbeat_interval past it UNKNOWN
C5_Witness ==
    /\ monitor_wake = now + health_check_interval
    /\ \E n, m \in Names :
          /\ Present(n) /\ Elapsed(n) = heartbeat_interval
          /\ Record(n).status = HEALTHY
          /\ Present(m) /\ Elapsed(m) = 2 * heartbeat_interval
          /\ Record(m).status = UNKNOWN

(* C8: under the least-connections strategy, with two HEALTHY candidates for
   a capability, a forward in flight to one of them and none to the other, a
   request routed by that capability is forwarded to the other. *)
C8_LeastConnectionsAvoidsBusy ==
    [][\A request_data \in RouteBodies : \A a, b \in Names :
          /\ strategy = "least_connections"
          /\ route_capability(request_data)
          /\ a # b
          /\ NameSeq(get_services_by_capability(services, request_data.capability))
                \in {<<a, b>>, <<b, a>>}
          /\ inflight[a] > 0
          /\ inflight[b] = 0
          => inflight'[b] = 1 /\ inflight'[a] = inflight[a]]_vars

(* C10: a route with target_service set answers with a failure naming the
   service, and forwards nothing, when the directory has no record of that
   name or the record is not HEALTHY; when the record is there and HEALTHY the
   request is forwarded to that service alone, and the answer of the forward
   names it. *)
C10_DirectRoute ==
    [][/\ \A request_data \in RouteBodies :
             route_direct(request_data) =>
                 LET target == request_data.target_service IN
                 IF Present(target) /\ Record(target).status = HEALTHY
                 THEN inflight' = [inflight EXCEPT ![target] = @ + 1]
                 ELSE /\ response'.op = "route"
                      /\ response'.success = FALSE
                      /\ response'.error = <<"Service", target, "not available">>
                      /\ inflight' = inflight
                      /\ active_connections' = active_connections
       /\ \A n \in Names :
             forward_done(n) =>
                 /\ response'.op = "route"
                 /\ response'.success = TRUE
                 /\ response'.service_name = n]_vars

\* a route to svc1 has just failed because svc1 is UNHEALTHY
C10_Witness ==
    /\ Present("svc1")
    /\ Record("svc1").status = UNHEALTHY
    /\ response.op = "route"
    /\ ~response.success
    /\ response.error = <<"Service", "svc1", "not available">>

\* the member after name in the cyclic order of the list of names
Successor(names, name) ==
    names[((CHOOSE i \in DOMAIN names : names[i] = name) % Len(names)) + 1]

(* C6: under round-robin, consecutive capability-routed requests that see the
   same candidate list are forwarded to its members in cyclic order, and from
   the first member when the list has been the same since the router's first
   pick: with the list svc1, svc2, four consecutive requests go to svc1, svc2,
   svc1, svc2. *)
C6_RoundRobinRotation ==
    strategy = "round_robin" /\ rr_run # <<>> =>
        /\ \A i \in 1..(Len(rr_run) - 1) :
              rr_run[i + 1] = Successor(rr_candidates, rr_run[i])
        /\ rr_first => rr_run[1] = rr_candidates[1]
        /\ rr_first /\ rr_candidates = <<"svc1", "svc2">> /\ Len(rr_run) = 4 =>
              rr_run = <<"svc1", "svc2", "svc1", "svc2">>

\* the router's first four picks, all from the list svc1, svc2
C6_Witness ==
    /\ strategy = "round_robin"
    /\ rr_first
    /\ rr_candidates = <<"svc1", "svc2">>
    /\ rr_run = <<"svc1", "svc2", "svc1", "svc2">>

(* C7: under round-robin, two successive routes for a capability that see
   the same candidate list pick successive members of it, whatever was routed
   for other capabilities in between. *)
C7_RotationPerCapability ==
    \A c \in Capabilities :
        Len(rr_cap_last[c].picks) = 2 =>
            rr_cap_last[c].picks[2] =
                Successor(rr_cap_last[c].candidates, rr_cap_last[c].picks[1])

\* connections.get(name, 0) for the service at position i of lc_services
LcCount(i) ==
    CountGet(StateGet(lc_state.connections, [n \in {} |-> 0]), lc_services[i].name)

(* C9: least_connections, given a non-empty candidate list and a map of
   connection counts (a missing name counting 0), returns a candidate of
   minimum count, the earliest in the list among those; with counts A: 2,
   B: 0 it returns B. *)
C9_LeastConnectionsSelection ==
    lc_selected # <<>> /\ lc_services # <<>> =>
        LET i == lc_selected[1] IN
        /\ i \in DOMAIN lc_services
        /\ \A j \in DOMAIN lc_services : LcCount(j) >= LcCount(i)
        /\ \A j \in 1..(i - 1) : LcCount(j) > LcCount(i)
        /\ (/\ {lc_services[j].name : j \in DOMAIN lc_services} = {"A", "B"}
            /\ lc_state.connections = <<[n \in {"A", "B"} |-> IF n = "A" THEN 2 ELSE 0]>>)
           => lc_services[i].name = "B"

\* least_connections has returned B for the list A, B with counts A: 2, B: 0
C9_Witness ==
    /\ lc_selected # <<>>
    /\ NameSeq(lc_services) = <<"A", "B">>
    /\ lc_state.connections = <<[n \in {"A", "B"} |-> IF n = "A" THEN 2 ELSE 0]>>
    /\ lc_services[lc_selected[1]].name = "B"

\* the capability is in the capability set of the record of n
Capable(n, c) == c \in Range(Record(n).capabilities)

(* C11: a route with no target service and a capability answers with the
   failure "No services available for capability" and forwards nothing when
   getByCapability(capability) is empty; otherwise it forwards to exactly one
   service, whose record is at that moment in the directory, HEALTHY and
   holds the capability. *)
C11_CapabilityRoute ==
    [][\A request_data \in RouteBodies :
          route_capability(request_data) =>
              LET capability == request_data.capability IN
              IF get_services_by_capability(services, capability) = <<>>
              THEN /\ response'.op = "route"
                   /\ response'.success = FALSE
                   /\ response'.error =
                         <<"No services available for capability", capability>>
                   /\ inflight' = inflight
                   /\ active_connections' = active_connections
              ELSE \E n \in Names :
                      /\ inflight' = [inflight EXCEPT ![n] = @ + 1]
                      /\ Present(n)
                      /\ Record(n).status = HEALTHY
                      /\ Capable(n, capability)]_vars

\* under round-robin a route by capability has picked the second of two
\* candidates and the forward to it is in flight; a route by capability d has
\* then failed although svc1, not HEALTHY any more, holds d
C11_Witness ==
    /\ strategy = "round_robin"
    /\ load_balancer_state.last_index = <<1>>
    /\ inflight["svc2"] = 1
    /\ Present("svc1") /\ Capable("svc1", "c") /\ Capable("svc1", "d")
    /\ Record("svc1").status = UNKNOWN
    /\ response.op = "route"
    /\ ~response.success
    /\ response.error = <<"No services available for capability", "d">>

\* this step is a call of router.route with the request of this body
RoutesStep(request_data) ==
    \/ route_direct(request_data)
    \/ route_capability(request_data)
    \/ route_no_criteria(request_data)

\* neither a target service nor a capability is set in the body
NoCriteria(request_data) ==
    /\ request_data.target_service \in {None, ""}
    /\ request_data.capability \in {None, ""}

(* C12: a route whose request sets neither a target service nor a capability
   answers, whatever the directory and the router hold, with the failure
   "No target service or capability specified", and forwards nothing. *)
C12_NoCriteria ==
    [][\A request_data \in RouteBodies :
          NoCriteria(request_data) /\ RoutesStep(request_data) =>
              /\ response'.op = "route"
              /\ response'.success = FALSE
              /\ response'.error = <<"No target service or capability specified">>
              /\ inflight' = inflight
              /\ active_connections' = active_connections
              /\ load_balancer_state' = load_balancer_state
              /\ services' = services]_vars

\* a request without criteria has failed while a HEALTHY service was there
\* and a forward was in flight
C12_Witness ==
    /\ response.op = "route"
    /\ response.error = <<"No target service or capability specified">>
    /\ \E n \in Names : Present(n) /\ Record(n).status = HEALTHY
    /\ \E n \in Names : inflight[n] > 0

(* C13: the active-connection counter of every service name equals the
   number of forwards in flight to that name: it is counted up before the
   worker call and down when the forward ends, is never negative, and is 0
   for every name whenever no forward is in flight. *)
C13_ConnectionCounters ==
    /\ \A n \in Names :
          /\ CountGet(active_connections, n) = inflight[n]
          /\ CountGet(active_connections, n) >= 0
    /\ DOMAIN active_connections \subseteq Names
    /\ InFlight = 0 => \A n \in DOMAIN active_connections : active_connections[n] = 0

\* a forward to svc2 has ended and two forwards to svc1 are in flight
C13_Witness ==
    /\ "svc2" \in DOMAIN active_connections
    /\ active_connections["svc2"] = 0
    /\ "svc1" \in DOMAIN active_connections
    /\ active_connections["svc1"] = 2
    /\ inflight["svc1"] = 2

\* the step is the return of a failure RouteResponse
ReturnsFailure ==
    /\ response'.op = "route"
    /\ response'.success = FALSE
    /\ response'.error # <<>>
    /\ inflight' = inflight

(* C14: every call of route ends with a RouteResponse: it returns a failure
   with an error string at once, or it suspends in a forward, and a suspended
   forward can always go on and then returns success with the answer of the
   service it was forwarded to. *)
C14_RouteReturns ==
    /\ [](\A n \in Names : inflight[n] > 0 => ENABLED forward_done(n))
    /\ [][/\ \A request_data \in RouteBodies :
               RoutesStep(request_data) =>
                   \/ ReturnsFailure
                   \/ /\ \E n \in Names : inflight' = [inflight EXCEPT ![n] = @ + 1]
                      /\ response' = response
          /\ \A n \in Names :
               forward_done(n) =>
                   /\ response'.op = "route"
                   /\ response'.success = TRUE
                   /\ response'.error = <<>>
                   /\ response'.service_name = n
                   /\ inflight' = [inflight EXCEPT ![n] = @ - 1]]_vars

\* a route has returned a failure while the forward of another is suspended
C14_Witness ==
    /\ response.op = "route"
    /\ response.success = FALSE
    /\ response.error # <<>>
    /\ InFlight = 1

(* C15: POST /route answers with HTTP status 503 whenever the router reports
   the request unavailable: the target service is absent or not HEALTHY, or
   no HEALTHY service holds the capability. *)
C15_Unavailable503 ==
    [][\A request_data \in RouteBodies :
          /\ route_direct(request_data) \/ route_capability(request_data)
          /\ response'.op = "route"
          /\ response'.success = FALSE
          => response'.http = 503]_vars

(* C16: POST /route answers with HTTP status 400 when the body carries a
   method but neither a target service nor a capability. *)
C16_NoCriteria400 ==
    [][\A request_data \in RouteBodies :
          /\ "method" \in request_data.keys
          /\ NoCriteria(request_data)
          /\ RoutesStep(request_data)
          => response'.http = 400]_vars

\* the body lacks one of name, host and port
MissingField(service_data) ==
    \E key \in {"name", "host", "port"} : key \notin service_data.keys

(* C17: a registration whose body lacks name, host or port is answered with
   HTTP 400 and leaves the directory as it was, no entry added or replaced
   and the Health Monitor not started; a body carrying all three is answered
   with success for its name, and the directory has the record. *)
C17_RegistrationValidated ==
    [][\A service_data \in RegisterBodies :
          register_service(service_data) =>
              IF MissingField(service_data)
              THEN /\ response'.op = "register"
                   /\ response'.http = 400
                   /\ response'.success = FALSE
                   /\ services' = services
                   /\ health_check_task' = health_check_task
                   /\ monitor_wake' = monitor_wake
              ELSE /\ response'.op = "register"
                   /\ response'.http = 200
                   /\ response'.success = TRUE
                   /\ response'.service_name = service_data.name
                   /\ \E i \in DOMAIN services' :
                         /\ services'[i].name = service_data.name
                         /\ services'[i].host = service_data.host
                         /\ services'[i].port = service_data.port]_vars

\* a registration has been rejected, the directory is empty and the Health
\* Monitor has not been started
C17_Witness ==
    /\ response.op = "register"
    /\ response.http = 400
    /\ services = <<>>
    /\ ~health_check_task

(* C18: heartbeat(name) on a name in the directory sets the lastHeartbeat of
   its record to now and its status to HEALTHY, whatever the status was
   (UNHEALTHY as well), changes nothing else in the directory, and answers
   found. *)
C18_HeartbeatRevives ==
    [][\A n \in Names :
          heartbeat(n) /\ Present(n) =>
              /\ services' = [services EXCEPT ![IndexOf(services, n)] =
                                 [@ EXCEPT !.last_heartbeat = now,
                                           !.status = HEALTHY]]
              /\ response'.op = "heartbeat"
              /\ response'.http = 200
              /\ response'.success = TRUE]_vars

\* a heartbeat has just found svc1 UNHEALTHY, long after its registration,
\* and left it HEALTHY with the time of the heartbeat, next to svc2 which is
\* not HEALTHY
C18_Witness ==
    /\ beat_from["svc1"] = UNHEALTHY
    /\ response = Answer("heartbeat", 200, TRUE, <<>>, "svc1")
    /\ Present("svc1")
    /\ Record("svc1").status = HEALTHY
    /\ Record("svc1").last_heartbeat = now
    /\ now > 2 * heartbeat_interval
    /\ Present("svc2")
    /\ Record("svc2").status # HEALTHY

(* C19: deregister(name) and heartbeat(name) on a name that is not in the
   directory answer not found (HTTP 404) and leave the directory as it was:
   heartbeat creates no entry, and a deregister after a deregister of the
   same name answers not found. *)
C19_NotFound ==
    /\ [](\A n \in Names : departed[n] => ~Present(n))
    /\ [][\A n \in Names :
             /\ deregister_service(n) /\ ~Present(n) =>
                   /\ response' = Answer("deregister", 404, FALSE,
                                         <<"Service not found">>, n)
                   /\ services' = services
                   /\ health_check_task' = health_check_task
             /\ heartbeat(n) /\ ~Present(n) =>
                   /\ response' = Answer("heartbeat", 404, FALSE,
                                         <<"Service not found">>, n)
                   /\ services' = services
                   /\ health_check_task' = health_check_task]_vars

\* svc1 has been deregistered, a deregister of svc1 has then answered not
\* found, and svc2 is still in the directory
C19_Witness ==
    /\ departed["svc1"]
    /\ response = Answer("deregister", 404, FALSE, <<"Service not found">>, "svc1")
    /\ Present("svc2")

\* the status stored under the name n after the step
StatusAfter(n) == services'[IndexOf(services', n)].status

\* the name n is in the directory before and after the step
Stays(n) == Present(n) /\ HasService(services', n)

(* C20, as claimed: the status stored under a name that is in the directory
   is changed by no step but a heartbeat for that name and a cycle of the
   Health Monitor: no register, deregister or route changes it. *)
C20_StatusSetByMonitorAndHeartbeatOnly ==
    [][\A n \in Names :
          Stays(n) /\ StatusAfter(n) # Record(n).status =>
              heartbeat(n) \/ monitor_health]_vars

(* C20, amended: the status stored under a name that is in the directory is
   changed by no step but a heartbeat for that name, a cycle of the Health
   Monitor and a registration under that name, which stores UNKNOWN; no
   deregister and no route changes it, and a registration changes the status
   under no other name. *)
C20_StatusSetByRegisterToo ==
    [][\A n \in Names :
          /\ Stays(n) /\ StatusAfter(n) # Record(n).status =>
                heartbeat(n) \/ monitor_health \/ RegistersStep(n)
          /\ RegistersStep(n) => StatusAfter(n) = UNKNOWN]_vars

\* a forward to svc1 is in flight, so svc1 was HEALTHY at this time, the
\* clock has not moved since the start, and a registration under svc1 has
\* just left its record UNKNOWN
C20_Witness ==
    /\ now = 0
    /\ inflight["svc1"] > 0
    /\ response = Answer("register", 200, TRUE, <<>>, "svc1")
    /\ Present("svc1")
    /\ Record("svc1").status = UNKNOWN

(* C21: getByCapability(capability) returns exactly the entries of the
   directory that hold the capability and are HEALTHY, each once, in the
   order in which the directory holds them. *)
C21_GetByCapability ==
    \A c \in Capabilities :
        LET found == get_services_by_capability(services, c)
            wanted == { i \in DOMAIN services :
                            /\ services[i].status = HEALTHY
                            /\ \E k \in DOMAIN services[i].capabilities :
                                  services[i].capabilities[k] = c }
        IN  /\ Len(found) = Cardinality(wanted)
            /\ \A i \in wanted : \E j \in DOMAIN found : found[j] = services[i]
            /\ \A j, k \in DOMAIN found :
                  j < k => \E i, l \in wanted :
                              /\ i < l
                              /\ services[i] = found[j]
                              /\ services[l] = found[k]

\* svc2 was entered before svc1 and both are HEALTHY: c lists svc2, svc1 and
\* d lists svc1 alone
C21_Witness ==
    /\ NameSeq(services) = <<"svc2", "svc1">>
    /\ \A i \in DOMAIN services : services[i].status = HEALTHY
    /\ NameSeq(get_services_by_capability(services, "c")) = <<"svc2", "svc1">>
    /\ NameSeq(get_services_by_capability(services, "d")) = <<"svc1">>

(* C22: heartbeat(name) and deregister(name) racing on one name: each runs
   as a whole before or after the other.  The deregister that finds the entry
   removes it and answers found, and the entry stays away; a heartbeat that
   runs before it answers found, one that runs after it answers not found
   and neither re-creates nor updates an entry. *)
C22_HeartbeatDeregisterRace ==
    /\ [](\A n \in Names :
             departed[n] => /\ ~Present(n)
                            /\ beat_from[n] \in {None, NotFound,
                                                 HEALTHY, UNKNOWN, UNHEALTHY})
    /\ [][\A n \in Names :
             /\ deregister_service(n) /\ Present(n) =>
                   /\ response' = Answer("deregister", 200, TRUE, <<>>, n)
                   /\ services' = SelectSeq(services, LAMBDA r : r.name # n)
             /\ heartbeat(n) /\ Present(n) =>
                   /\ response' = Answer("heartbeat", 200, TRUE, <<>>, n)
                   /\ NameSeq(services') = NameSeq(services)
             /\ heartbeat(n) /\ departed[n] =>
                   /\ response' = Answer("heartbeat", 404, FALSE,
                                         <<"Service not found">>, n)
                   /\ services' = services]_vars

\* both outcomes: the heartbeat for svc2 ran first and found it, and svc2 was
\* then removed; the deregister of svc1 ran first, and the heartbeat for svc1
\* has just answered not found
C22_Witness ==
    /\ departed["svc2"]
    /\ beat_from["svc2"] \in {HEALTHY, UNKNOWN, UNHEALTHY}
    /\ departed["svc1"]
    /\ beat_from["svc1"] = NotFound
    /\ response = Answer("heartbeat", 404, FALSE, <<"Service not found">>, "svc1")
    /\ services = <<>>

\* the record of every name but n is after the step what it was before
OthersUntouched(n) ==
    \A m \in Names \ {n} :
        /\ Present(m) <=> HasService(services', m)
        /\ Present(m) => services'[IndexOf(services', m)] = Record(m)

(* C23: register, deregister, heartbeat and a cycle of the Health Monitor
   each run as a whole.  No state shows a record whose lastHeartbeat a
   heartbeat has refreshed and whose status is not HEALTHY yet; a register,
   deregister or heartbeat touches the record of its name alone; and a cycle
   of the monitor classifies every entry of the directory it started on, all
   at the time of the cycle, with no entry entering or leaving meanwhile. *)
C23_AtomicOperations ==
    /\ [](\A n \in Names :
             Present(n) /\ beaten[n] /\ Elapsed(n) <= heartbeat_interval =>
                 Record(n).status = HEALTHY)
    /\ [][/\ \A n \in Names :
                RegistersStep(n) \/ deregister_service(n) \/ heartbeat(n) =>
                    OthersUntouched(n)
          /\ monitor_health =>
                /\ NameSeq(services') = NameSeq(services)
                /\ \A i \in DOMAIN services :
                      services'[i] = monitor_classify(services[i], now)]_vars

\* a heartbeat has found svc1 UNHEALTHY and refreshed it at this time, and a
\* cycle of the monitor has run at this time as well, next to svc2 which it
\* has left UNHEALTHY
C23_Witness ==
    /\ beat_from["svc1"] = UNHEALTHY
    /\ Present("svc1")
    /\ Record("svc1").last_heartbeat = now
    /\ Record("svc1").status = HEALTHY
    /\ Present("svc2")
    /\ Record("svc2").status = UNHEALTHY
    /\ monitor_wake = now + health_check_interval

(* C27: a record whose status is UNHEALTHY has a last heartbeat more than
   2*heartbeat_interval old: the monitor marks no younger record UNHEALTHY,
   and a heartbeat leaves no record UNHEALTHY. *)
C27_UnhealthyIsStale ==
    \A n \in Names :
        Present(n) /\ Record(n).status = UNHEALTHY =>
            Elapsed(n) > 2 * heartbeat_interval

\* svc1 is UNHEALTHY, and svc2, whose heartbeat found it UNHEALTHY, is
\* HEALTHY, or UNKNOWN exactly 2*heartbeat_interval past its heartbeat
C27_Witness ==
    /\ Present("svc1")
    /\ Record("svc1").status = UNHEALTHY
    /\ Present("svc2")
    /\ \/ beat_from["svc2"] = UNHEALTHY /\ Record("svc2").status = HEALTHY
       \/ /\ Elapsed("svc2") = 2 * heartbeat_interval
          /\ Record("svc2").status = UNKNOWN

(* C24: there is one Health Monitor loop per directory: the first accepted
   registration starts it, and no later registration, of the same or of
   another name, or after every service has been deregistered, starts a
   second. *)
C24_OneMonitor ==
    /\ [](/\ monitor_tasks <= 1
          /\ monitor_tasks = 1 <=> health_check_task
          /\ monitor_tasks = 0 =>
                /\ services = <<>>
                /\ \A n \in Names : registrations[n] = 0 /\ ~departed[n])
    /\ [][/\ \A n \in Names : RegistersStep(n) => monitor_tasks' = 1
          /\ monitor_tasks' >= monitor_tasks]_vars

\* svc1 has been registered over its own record, svc2 has been deregistered
\* and svc1 is alone in the directory: one loop runs
C24_Witness ==
    /\ monitor_tasks = 1
    /\ registrations["svc1"] = 2
    /\ departed["svc2"]
    /\ NameSeq(services) = <<"svc1">>

(* C25: a failure raised in a cycle of the Health Monitor does not stop the
   loop: the failing cycle is followed by a sleep of health_check_interval
   like any other, the loop always has its next cycle due within
   health_check_interval, and whenever the monitor has been started a cycle
   runs at that time or later. *)
C25_MonitorKeepsRunning ==
    /\ [](health_check_task => monitor_wake <= now + health_check_interval)
    /\ [][\A classified \in 0..Len(services) :
             monitor_failed(classified) =>
                 /\ health_check_task'
                 /\ monitor_wake' = now + health_check_interval]_vars
    /\ \A t \in TimePoints :
          (health_check_task /\ now = t) ~> (monitor_wake > t)

\* a cycle has just failed after its first entry: svc1 and svc2 had their
\* heartbeats at the same time, which is more than heartbeat_interval ago;
\* svc1 has been classified UNKNOWN, svc2 is HEALTHY still, and the loop sleeps
C25_Witness ==
    /\ NameSeq(services) = <<"svc1", "svc2">>
    /\ beaten["svc1"] /\ beaten["svc2"]
    /\ Record("svc1").last_heartbeat = Record("svc2").last_heartbeat
    /\ Elapsed("svc1") > heartbeat_interval
    /\ Record("svc1").status = UNKNOWN
    /\ Record("svc2").status = HEALTHY
    /\ monitor_wake = now + health_check_interval

\* C26: all request-handling tasks of the running hub share one directory:
\* once a register(name) request has been answered with success (and no
\* deregistration of name has been), a heartbeat or a deregister request for
\* name finds the record, whichever worker process handles it.
C26_OneDirectoryForAllWorkers ==
    [][\A w \in 1..workers, n \in Names :
          (/\ n \in hub_registered
           /\ (worker_heartbeat(w, n) \/ worker_deregister(w, n)))
          => response'.http = 200]_vars

\* the route of the body fails before forwarding: the target is absent or not
\* HEALTHY, or no HEALTHY service holds the capability, or neither is given
FailsBeforeForward(request_data) ==
    IF truthy(request_data.target_service)
    THEN ~target_available(services, request_data.target_service)
    ELSE IF truthy(request_data.capability)
    THEN get_services_by_capability(services, request_data.capability) = <<>>
    ELSE TRUE

(* C29: a route call that fails before forwarding (target absent or not
   HEALTHY, no healthy service for the capability, or neither target nor
   capability given) leaves the directory, every active-connection counter
   and the round-robin last_index unchanged; a direct target_service route,
   failing or not, never advances the round-robin last_index. *)
C29_FailedRouteFrame ==
    [][\A request_data \in RouteBodies :
          /\ FailsBeforeForward(request_data) /\ RoutesStep(request_data) =>
                 /\ ReturnsFailure
                 /\ services' = services
                 /\ active_connections' = active_connections
                 /\ load_balancer_state' = load_balancer_state
          /\ truthy(request_data.target_service) /\ route_direct(request_data) =>
                 load_balancer_state' = load_balancer_state]_vars

\* a route has failed after round-robin had moved on to its second candidate,
\* with a counter standing at 1 and another at 0
C29_Witness ==
    /\ response.op = "route"
    /\ response.success = FALSE
    /\ load_balancer_state.last_index = <<1>>
    /\ DOMAIN active_connections = Names
    /\ active_connections["svc1"] = 0
    /\ active_connections["svc2"] = 1

(* C30: whatever happens to the record of a service while a forward to it is
   in flight (deregistered, registered again, reclassified UNKNOWN or
   UNHEALTHY), the forward can still complete, and completes with a
   RouteResponse naming that service; its active-connection counter is
   counted down by exactly one without error, the entry being there because
   no step but the start and the end of a forward to the name (deregister
   least of all) touches its counter; and no counter is ever negative. *)
C30_ForwardOutlivesRecord ==
    /\ [](\A n \in Names :
            /\ inflight[n] > 0 =>
                   /\ ENABLED forward_done(n)
                   /\ n \in DOMAIN active_connections
                   /\ active_connections[n] = inflight[n]
            /\ n \in DOMAIN active_connections => active_connections[n] >= 0)
    /\ [][\A n \in Names :
            /\ forward_done(n) =>
                   /\ response' = Answer("route", 200, TRUE, <<>>, n)
                   /\ active_connections' =
                          [active_connections EXCEPT ![n] = active_connections[n] - 1]
                   /\ active_connections'[n] >= 0
            /\ inflight'[n] = inflight[n] =>
                   /\ n \in DOMAIN active_connections =>
                          n \in DOMAIN active_connections'
                   /\ CountGet(active_connections', n) =
                          CountGet(active_connections, n)]_vars

\* a forward to svc1 has completed after svc1 was deregistered, and one to
\* svc2 is in flight while svc2 has been reclassified UNHEALTHY
C30_Witness ==
    /\ response = Answer("route", 200, TRUE, <<>>, "svc1")
    /\ ~Present("svc1")
    /\ active_connections["svc1"] = 0
    /\ inflight["svc2"] = 1
    /\ Present("svc2")
    /\ Record("svc2").status = UNHEALTHY

\* the names get_services_by_capability returns for some capability
Listable == UNION { Range(NameSeq(get_services_by_capability(services, c))) :
                       c \in Capabilities }

(* C28: provided the Health Monitor runs a cycle at least once every
   health_check_interval, no record is HEALTHY while now - last_heartbeat >
   heartbeat_interval + health_check_interval: a service whose heartbeats
   have stopped for longer than that is neither returned by
   get_services_by_capability nor accepted as a route target; before that it
   may still be (C28_Witness). *)
C28_StaleWithinOneCycle ==
    /\ health_check_task => now <= monitor_wake
    /\ \A n \in Names :
          Present(n) /\ Elapsed(n) > heartbeat_interval + health_check_interval =>
              /\ Record(n).status # HEALTHY
              /\ ~target_available(services, n)
              /\ n \notin Listable

\* svc1 has not sent a heartbeat for more than heartbeat_interval, the cycle
\* that will find it out is due, and svc1 is still HEALTHY, accepted as a
\* route target and returned for its capability
C28_Witness ==
    /\ Present("svc1")
    /\ Elapsed("svc1") > heartbeat_interval
    /\ Elapsed("svc1") <= heartbeat_interval + health_check_interval
    /\ health_check_task /\ monitor_wake = now
    /\ target_available(services, "svc1")
    /\ "svc1" \in Listable

====
